---- MODULE Spec2Model ----
(***************************************************************************)
(* dynabuf: protobuf messages <-> DynamoDB attribute values.               *)
(*                                                                         *)
(* Marshal, Unmarshal and Updates are pure, synchronous functions.  The    *)
(* model draws the arguments of one call in Init and applies the function  *)
(* in one action; a successful Marshal may be followed by the Unmarshal of *)
(* its result (the round trip of TestRoudtrip).                            *)
(*                                                                         *)
(* The external codecs (protojson, encoding/json, attributevalue) are      *)
(* modelled by what they do on a small universe of values: every stage     *)
(* changes the representation (proto value -> JSON text -> Go value ->     *)
(* attribute value and back), and every stage has inputs it rejects.       *)
(***************************************************************************)
EXTENDS Integers, Sequences, FiniteSets, TLC

\* Longest slice (of messages, of attribute maps) the model draws.
MaxLen == 2

\* Most messages a destination slice holds before Unmarshal is called.
MaxPrior == 1

(***************************************************************************)
(* Errors.  An error value is the chain of things fmt.Errorf's %w and the  *)
(* format text put into it, outermost first; the nil error is <<>>.        *)
(***************************************************************************)
ErrFailedToMarshal == "ErrFailedToMarshal"

ErrFailedToMarshalIntermediary == "ErrFailedToMarshalIntermediary"

ErrFailedToUnmarshalIntermediary == "ErrFailedToUnmarshalIntermediary"

ErrFailedToUnmarshal == "ErrFailedToUnmarshal"

ErrInvalidInput == "ErrInvalidInput"

ErrInvalidOutput == "ErrInvalidOutput"

ErrKinds ==
  {ErrFailedToMarshal, ErrFailedToMarshalIntermediary, ErrFailedToUnmarshalIntermediary,
   ErrFailedToUnmarshal, ErrInvalidInput, ErrInvalidOutput}

NoIndex == -1

\* One link of an error chain: a dynabuf error kind, an external codec's
\* error, or the "%T" text.
W(k) == [k |-> k, i |-> NoIndex]

\* The "at index %d" text of marshalProtoSlice.
AtIndex(i) == [k |-> "at index", i |-> i]

NilErr == <<>>

\* errors.Is(err, kind)
Is(err, kind) == \E j \in DOMAIN err : err[j].k = kind

(***************************************************************************)
(* Go values handed to Marshal and Unmarshal as `any`.                     *)
(***************************************************************************)
Keys == {"bar", "foo"}

\* The message types of the model: Struct takes any field (structpb.Struct),
\* User has the one string field "bar", StringValue is a wrapper whose
\* protojson form is a bare JSON string.
MsgTypes == {"Struct", "User", "StringValue"}

BadUTF8 == [p |-> "string_value", v |-> "\\xff"]

PString(s) == [p |-> "string_value", v |-> s]

PNumber(f) == [p |-> "number_value", f |-> f]

\* The values a field of a message of type t may hold.
FieldVals(t, k) ==
  CASE t = "Struct" /\ k = "bar" -> {PString("hello moon"), PNumber(1), BadUTF8}
    [] t = "Struct" /\ k = "foo" -> {PString("hello world")}
    [] t = "User" /\ k = "bar" -> {PString("hello moon"), BadUTF8}
    [] t = "StringValue" /\ k = "value" -> {PString("hello world")}
    [] OTHER -> {}

\* The fields the schema of t declares.
FieldNames(t) ==
  CASE t = "Struct" -> Keys
    [] t = "User" -> {"bar"}
    [] t = "StringValue" -> {"value"}
    [] OTHER -> {}

\* The field maps of messages of type t: an absent field holds its default.
FieldMaps(t) ==
  UNION {{f \in [D -> UNION {FieldVals(t, k) : k \in D}] :
            \A k \in D : f[k] \in FieldVals(t, k)} : D \in SUBSET FieldNames(t)}

\* A non-nil *T: the message's set fields and whether it carries unknown fields.
Msg(t, f, u) == [kind |-> "msg", type |-> t, fields |-> f, unknown |-> u]

Msgs(t) == {Msg(t, f, u) : f \in FieldMaps(t), u \in BOOLEAN}

\* A typed nil pointer (*T)(nil).
NilMsg(t) == [kind |-> "nilmsg", type |-> t]

GoNil == [kind |-> "nil"]

GoInt == [kind |-> "int"]

\* Element types of slices and arrays: reflect.Kind and what it points to.
PtrTo(t) == [k |-> "Ptr", to |-> t]

IfaceType == [k |-> "Interface", to |-> "proto.Message"]

IntType == [k |-> "Int", to |-> "int"]

Slice(e, items) == [kind |-> "slice", elem |-> e, items |-> items]

Array(e, items) == [kind |-> "array", elem |-> e, items |-> items]

\* A non-nil pointer to a value that is not a message struct.
Ptr(x) == [kind |-> "ptr", to |-> x]

\* (*[]T)(nil)
NilSlicePtr(e) == [kind |-> "nilptr", elem |-> e]

RECURSIVE SeqsUpTo(_, _)
SeqsUpTo(S, n) ==
  IF n = 0 THEN {<<>>}
  ELSE LET shorter == SeqsUpTo(S, n - 1)
       IN shorter \cup {Append(s, x) : s \in {q \in shorter : Len(q) = n - 1}, x \in S}

\* reflect.ValueOf(v).Kind()
KindOf(v) ==
  CASE v.kind = "nil" -> "Invalid"
    [] v.kind = "int" -> "Int"
    [] v.kind \in {"msg", "nilmsg", "ptr", "nilptr"} -> "Ptr"
    [] v.kind = "slice" -> "Slice"
    [] v.kind = "array" -> "Array"

\* %T
TypeName(v) ==
  CASE v.kind = "nil" -> "<nil>"
    [] v.kind = "int" -> "int"
    [] v.kind \in {"msg", "nilmsg"} -> "*" \o v.type
    [] v.kind = "slice" -> "[]" \o v.elem.to
    [] v.kind = "array" -> "[n]" \o v.elem.to
    [] v.kind = "ptr" -> "*" \o v.to.kind
    [] v.kind = "nilptr" -> "*[]" \o v.elem.to

isProtoMessage(v) == v.kind \in {"msg", "nilmsg"}

\* Mutant: an interface element type passes as well.
isProtoSlice_interfaceElem(v) ==
  IF KindOf(v) # "Slice" THEN FALSE
  ELSE IF v.elem.k \notin {"Ptr", "Interface"} THEN FALSE
  ELSE v.elem.to \in MsgTypes \cup {"proto.Message"}

isProtoSlice(v) ==
  IF KindOf(v) # "Slice" THEN FALSE
  ELSE IF v.elem.k # "Ptr" THEN FALSE
  ELSE v.elem.to \in MsgTypes

(***************************************************************************)
(* The external codecs, encode direction.                                  *)
(***************************************************************************)
\* strconv.FormatFloat on the floats of the model.
FormatFloat(f) == CASE f = 1 -> "1" [] OTHER -> "0"

\* strconv.ParseFloat: "NaN" parses, to a NaN.
ParseFloat(s) ==
  CASE s = "1" -> [ok |-> TRUE, x |-> [g |-> "float64", f |-> 1]]
    [] s = "0" -> [ok |-> TRUE, x |-> [g |-> "float64", f |-> 0]]
    [] s = "NaN" -> [ok |-> TRUE, x |-> [g |-> "float64", nan |-> TRUE]]
    [] OTHER -> [ok |-> FALSE]

\* protojson's text for one field value.
JSONOfProto(pv) ==
  IF pv.p = "string_value" THEN [j |-> "string", v |-> pv.v]
  ELSE [j |-> "number", lit |-> FormatFloat(pv.f)]

\* protojson.Marshal: unknown fields are not written; a string that is not
\* UTF-8 is an error; a wrapper type is written as its bare value; a nil
\* message is written as the empty message.
protojson_Marshal(m) ==
  IF m.kind = "nilmsg"
  THEN [ok |-> TRUE,
        b |-> IF m.type = "StringValue" THEN [j |-> "string", v |-> ""]
              ELSE [j |-> "object", members |-> <<>>]]
  ELSE IF \E k \in DOMAIN m.fields : m.fields[k] = BadUTF8
  THEN [ok |-> FALSE, err |-> <<W("protojson: invalid UTF-8")>>]
  ELSE IF m.type = "StringValue"
  THEN [ok |-> TRUE,
        b |-> [j |-> "string",
               v |-> IF "value" \in DOMAIN m.fields THEN m.fields["value"].v ELSE ""]]
  ELSE [ok |-> TRUE,
        b |-> [j |-> "object",
               members |-> [k \in DOMAIN m.fields |-> JSONOfProto(m.fields[k])]]]

\* encoding/json's Go value for one JSON value decoded into `any`.
GoOfJSON(jv) ==
  IF jv.j = "string" THEN [g |-> "string", v |-> jv.v]
  ELSE ParseFloat(jv.lit).x

\* json.Unmarshal(b, &intermediary) with intermediary a map[string]any.
json_UnmarshalMap(b) ==
  IF b.j # "object"
  THEN [ok |-> FALSE, err |-> <<W("json: cannot unmarshal into map[string]interface {}")>>]
  ELSE [ok |-> TRUE, m |-> [k \in DOMAIN b.members |-> GoOfJSON(b.members[k])]]

AVS(s) == [t |-> "S", v |-> s]

AVN(s) == [t |-> "N", v |-> s]

\* attributevalue's encoding of one Go value.
AVOfGo(x) ==
  IF x.g = "string" THEN AVS(x.v)
  ELSE IF "nan" \in DOMAIN x THEN AVN("NaN")
  ELSE AVN(FormatFloat(x.f))

\* attributevalue.MarshalMap: an error for a value with no attribute form.
attributevalue_MarshalMap(m) ==
  IF \E k \in DOMAIN m : m[k].g \notin {"string", "float64"}
  THEN [ok |-> FALSE, err |-> <<W("attributevalue: unsupported type")>>]
  ELSE [ok |-> TRUE, av |-> [k \in DOMAIN m |-> AVOfGo(m[k])]]

(***************************************************************************)
(* Marshal                                                                 *)
(***************************************************************************)
\* What a call returns: the value, the error, and the codec calls it made,
\* each with the index of the slice element it was made for (NoIndex for a
\* call outside a slice).
Call(fn, i) == [fn |-> fn, i |-> i]

NilMap == [kind |-> "nilmap"]

NilMaps == [kind |-> "nilmaps"]

AttrMapVal(av) == [kind |-> "map", m |-> av]

AttrMapsVal(l) == [kind |-> "maps", l |-> l]

Ret(val, err, calls) == [val |-> val, err |-> err, calls |-> calls]

marshalProtoMessage(v, i) ==
  IF ~isProtoMessage(v)
  THEN Ret(NilMap, <<W(ErrFailedToMarshal), W(ErrInvalidInput), W(TypeName(v))>>, <<>>)
  ELSE
  LET b == protojson_Marshal(v)
      c1 == <<Call("protojson.Marshal", i)>>
  IN IF ~b.ok THEN Ret(NilMap, <<W(ErrFailedToMarshal)>> \o b.err, c1)
  ELSE
  LET intermediary == json_UnmarshalMap(b.b)
      c2 == Append(c1, Call("json.Unmarshal", i))
  IN IF ~intermediary.ok
     THEN Ret(NilMap,
              <<W(ErrFailedToMarshal), W(ErrFailedToUnmarshalIntermediary)>> \o intermediary.err,
              c2)
  ELSE
  LET av == attributevalue_MarshalMap(intermediary.m)
      c3 == Append(c2, Call("attributevalue.MarshalMap", i))
  IN IF ~av.ok THEN Ret(NilMap, <<W(ErrFailedToMarshal)>> \o av.err, c3)
     ELSE Ret(AttrMapVal(av.av), NilErr, c3)

\* Mutant: each attribute map is put in front of the ones before it.
RECURSIVE marshalLoop_prepend(_, _, _, _)
marshalLoop_prepend(items, i, result, calls) ==
  IF i > Len(items) THEN Ret(AttrMapsVal(result), NilErr, calls)
  ELSE LET r == marshalProtoMessage(items[i], i - 1)
       IN IF r.err # NilErr
          THEN Ret(NilMaps, <<W(ErrFailedToMarshal), AtIndex(i - 1)>> \o r.err, calls \o r.calls)
          ELSE marshalLoop_prepend(items, i + 1, <<r.val.m>> \o result, calls \o r.calls)

\* Mutant: the index reported counts from one.
RECURSIVE marshalLoop_indexFromOne(_, _, _, _)
marshalLoop_indexFromOne(items, i, result, calls) ==
  IF i > Len(items) THEN Ret(AttrMapsVal(result), NilErr, calls)
  ELSE LET r == marshalProtoMessage(items[i], i - 1)
       IN IF r.err # NilErr
          THEN Ret(NilMaps, <<W(ErrFailedToMarshal), AtIndex(i)>> \o r.err, calls \o r.calls)
          ELSE marshalLoop_indexFromOne(items, i + 1, Append(result, r.val.m), calls \o r.calls)

\* The loop of marshalProtoSlice from index i on.
RECURSIVE marshalLoop(_, _, _, _)
marshalLoop(items, i, result, calls) ==
  IF i > Len(items) THEN Ret(AttrMapsVal(result), NilErr, calls)
  ELSE LET r == marshalProtoMessage(items[i], i - 1)
       IN IF r.err # NilErr
          THEN Ret(NilMaps, <<W(ErrFailedToMarshal), AtIndex(i - 1)>> \o r.err, calls \o r.calls)
          ELSE marshalLoop(items, i + 1, Append(result, r.val.m), calls \o r.calls)

marshalProtoSlice(v) ==
  IF KindOf(v) # "Slice"
  THEN Ret(NilMaps, <<W(ErrFailedToMarshal), W(ErrInvalidInput), W(TypeName(v))>>, <<>>)
  ELSE IF ~isProtoSlice(v)
  THEN Ret(NilMaps, <<W(ErrFailedToMarshal), W(ErrInvalidInput), W(TypeName(v))>>, <<>>)
  ELSE marshalLoop(v.items, 1, <<>>, <<>>)

\* Mutant: the dispatch on the kind is dropped, every input is taken as a slice.
Marshal_alwaysSlice(v) == marshalProtoSlice(v)

Marshal(v) ==
  IF KindOf(v) = "Slice" THEN marshalProtoSlice(v)
  ELSE marshalProtoMessage(v, NoIndex)

(***************************************************************************)
(* The external codecs, decode direction.                                  *)
(***************************************************************************)
\* attributevalue's Go value for one scalar attribute value decoded into
\* `any`: a number becomes a float64, and a number that does not parse is
\* an error.
GoOfAV(a) ==
  IF a.t = "S" THEN [ok |-> TRUE, x |-> [g |-> "string", v |-> a.v]]
  ELSE ParseFloat(a.v)

GoMap(m) == [g |-> "map", m |-> m]

GoSlice(l) == [g |-> "slice", l |-> l]

\* attributevalue.UnmarshalMap(item, &out) with out a map[string]any.
attributevalue_UnmarshalMap(m) ==
  IF \E k \in DOMAIN m : ~GoOfAV(m[k]).ok
  THEN [ok |-> FALSE, err |-> <<W("attributevalue: invalid number")>>]
  ELSE [ok |-> TRUE, x |-> GoMap([k \in DOMAIN m |-> GoOfAV(m[k]).x])]

AVM(m) == [t |-> "M", m |-> m]

AVL(l) == [t |-> "L", l |-> l]

\* attributevalue.Unmarshal(typedAV, &intermediateValue) with
\* intermediateValue an `any`: the Go value follows the attribute's own tag.
attributevalue_Unmarshal(a) ==
  CASE a.t \in {"S", "N"} ->
         IF GoOfAV(a).ok THEN GoOfAV(a)
         ELSE [ok |-> FALSE, err |-> <<W("attributevalue: invalid number")>>]
    [] a.t = "M" -> attributevalue_UnmarshalMap(a.m)
    [] a.t = "L" ->
         IF \E n \in DOMAIN a.l : ~attributevalue_UnmarshalMap(a.l[n].m).ok
         THEN [ok |-> FALSE, err |-> <<W("attributevalue: invalid number")>>]
         ELSE [ok |-> TRUE,
               x |-> GoSlice([n \in DOMAIN a.l |-> attributevalue_UnmarshalMap(a.l[n].m).x])]

RECURSIVE HasNaN(_)
HasNaN(x) ==
  CASE x.g = "float64" -> "nan" \in DOMAIN x
    [] x.g = "map" -> \E k \in DOMAIN x.m : HasNaN(x.m[k])
    [] x.g = "slice" -> \E n \in DOMAIN x.l : HasNaN(x.l[n])
    [] OTHER -> FALSE

RECURSIVE JSONOfGo(_)
JSONOfGo(x) ==
  CASE x.g = "string" -> [j |-> "string", v |-> x.v]
    [] x.g = "float64" -> [j |-> "number", lit |-> FormatFloat(x.f)]
    [] x.g = "map" -> [j |-> "object", members |-> [k \in DOMAIN x.m |-> JSONOfGo(x.m[k])]]
    [] x.g = "slice" -> [j |-> "array", elems |-> [n \in DOMAIN x.l |-> JSONOfGo(x.l[n])]]

\* json.Marshal(intermediateValue): a NaN has no JSON form.
json_Marshal(x) ==
  IF HasNaN(x) THEN [ok |-> FALSE, err |-> <<W("json: unsupported value: NaN")>>]
  ELSE [ok |-> TRUE, b |-> JSONOfGo(x)]

\* The order json.Marshal writes the keys of a map in, which is the order
\* protojson reads them in.
KeyOrder == <<"bar", "foo", "value">>

\* protojson's value for one JSON value read into field k of a message of
\* type t, or no value when the field does not take it.
ProtoOfJSON(t, k, jv) ==
  IF k \notin FieldNames(t) THEN [ok |-> FALSE, err |-> <<W("protojson: unknown field")>>]
  ELSE IF jv.j = "string" THEN [ok |-> TRUE, pv |-> PString(jv.v)]
  ELSE IF jv.j = "number" /\ t = "Struct"
  THEN [ok |-> TRUE, pv |-> PNumber(ParseFloat(jv.lit).x.f)]
  ELSE [ok |-> FALSE, err |-> <<W("protojson: invalid value for string type")>>]

\* The fields of a message of type t after protojson has read the members of
\* a JSON object from position n of KeyOrder on, given the fields set so
\* far; reading stops at the first member the message does not take.
RECURSIVE readMembers(_, _, _, _)
readMembers(t, members, n, fields) ==
  IF n > Len(KeyOrder) THEN [ok |-> TRUE, fields |-> fields]
  ELSE LET k == KeyOrder[n]
       IN IF k \notin DOMAIN members THEN readMembers(t, members, n + 1, fields)
          ELSE LET pv == ProtoOfJSON(t, k, members[k])
               IN IF ~pv.ok THEN [ok |-> FALSE, err |-> pv.err, fields |-> fields]
                  ELSE readMembers(t, members, n + 1,
                                   [x \in DOMAIN fields \cup {k} |->
                                      IF x = k THEN pv.pv ELSE fields[x]])

\* protojson.Unmarshal(b, m) for a non-nil m: m is reset, then filled field
\* by field; on an error m keeps what was written before it.
protojson_Unmarshal(b, m) ==
  IF m.type = "StringValue"
  THEN IF b.j = "string"
       THEN [ok |-> TRUE,
             m |-> Msg(m.type, IF b.v = "" THEN <<>> ELSE [k \in {"value"} |-> PString(b.v)],
                       FALSE)]
       ELSE [ok |-> FALSE, err |-> <<W("protojson: unexpected token")>>,
             m |-> Msg(m.type, <<>>, FALSE)]
  ELSE IF b.j # "object"
  THEN [ok |-> FALSE, err |-> <<W("protojson: unexpected token")>>,
        m |-> Msg(m.type, <<>>, FALSE)]
  ELSE LET r == readMembers(m.type, b.members, 1, <<>>)
       IN IF r.ok THEN [ok |-> TRUE, m |-> Msg(m.type, r.fields, FALSE)]
          ELSE [ok |-> FALSE, err |-> r.err, m |-> Msg(m.type, r.fields, FALSE)]

(***************************************************************************)
(* Unmarshal                                                               *)
(***************************************************************************)
\* What Unmarshal leaves: the error, the destination as the caller sees it
\* after the call, the codec calls made, and whether the call ended in a
\* run-time panic instead of returning.
URet(err, out, calls, panicked) ==
  [err |-> err, out |-> out, calls |-> calls, panicked |-> panicked]

\* Mutant: each decoded message is put in front of the slice.
RECURSIVE appendLoop_prepend(_, _, _, _, _)
appendLoop_prepend(elems, n, t, items, calls) ==
  IF n > Len(elems) THEN [ok |-> TRUE, items |-> items, calls |-> calls]
  ELSE LET r == protojson_Unmarshal(elems[n], Msg(t, <<>>, FALSE))
           c == Append(calls, Call("protojson.Unmarshal", n - 1))
       IN IF ~r.ok THEN [ok |-> FALSE, err |-> r.err, items |-> items, calls |-> c]
          ELSE appendLoop_prepend(elems, n + 1, t, <<r.m>> \o items, c)

\* Mutant: a message that failed to decode is appended before returning.
RECURSIVE appendLoop_appendsFailed(_, _, _, _, _)
appendLoop_appendsFailed(elems, n, t, items, calls) ==
  IF n > Len(elems) THEN [ok |-> TRUE, items |-> items, calls |-> calls]
  ELSE LET r == protojson_Unmarshal(elems[n], Msg(t, <<>>, FALSE))
           c == Append(calls, Call("protojson.Unmarshal", n - 1))
       IN IF ~r.ok THEN [ok |-> FALSE, err |-> r.err, items |-> Append(items, r.m), calls |-> c]
          ELSE appendLoop_appendsFailed(elems, n + 1, t, Append(items, r.m), c)

\* The loop of unmarshalJSONToProtoSlice from element n on.
RECURSIVE appendLoop(_, _, _, _, _)
appendLoop(elems, n, t, items, calls) ==
  IF n > Len(elems) THEN [ok |-> TRUE, items |-> items, calls |-> calls]
  ELSE LET r == protojson_Unmarshal(elems[n], Msg(t, <<>>, FALSE))
           c == Append(calls, Call("protojson.Unmarshal", n - 1))
       IN IF ~r.ok THEN [ok |-> FALSE, err |-> r.err, items |-> items, calls |-> c]
          ELSE appendLoop(elems, n + 1, t, Append(items, r.m), c)

\* Mutant: the decoded messages replace what the slice held.
unmarshalJSONToProtoSlice_replace(data, v) ==
  LET slice == v.to
      c == <<Call("json.Unmarshal", NoIndex)>>
  IN IF data.j # "array"
     THEN [ok |-> FALSE, err |-> <<W("json: cannot unmarshal into []json.RawMessage")>>,
           items |-> slice.items, calls |-> c]
     ELSE appendLoop(data.elems, 1, slice.elem.to, <<>>, c)

\* v is a pointer to a slice of messages; the result is the slice after.
unmarshalJSONToProtoSlice(data, v) ==
  LET slice == v.to
      c == <<Call("json.Unmarshal", NoIndex)>>
  IN IF data.j # "array"
     THEN [ok |-> FALSE, err |-> <<W("json: cannot unmarshal into []json.RawMessage")>>,
           items |-> slice.items, calls |-> c]
     ELSE appendLoop(data.elems, 1, slice.elem.to, slice.items, c)

\* The loop over a []map[string]types.AttributeValue from item n on.
RECURSIVE unmarshalMapsLoop(_, _, _, _)
unmarshalMapsLoop(l, n, acc, calls) ==
  IF n > Len(l) THEN [ok |-> TRUE, x |-> GoSlice(acc), calls |-> calls]
  ELSE LET r == attributevalue_UnmarshalMap(l[n])
           c == Append(calls, Call("attributevalue.UnmarshalMap", n - 1))
       IN IF ~r.ok THEN [ok |-> FALSE, err |-> r.err, calls |-> c]
          ELSE unmarshalMapsLoop(l, n + 1, Append(acc, r.x), c)

\* Mutant: a failure to read the JSON into the destination is wrapped without
\* ErrFailedToUnmarshalIntermediary.
unmarshalIntermediate_plainWrap(x, calls, v, isSlice) ==
  LET b == json_Marshal(x)
      c1 == Append(calls, Call("json.Marshal", NoIndex))
  IN IF ~b.ok
     THEN URet(<<W(ErrFailedToUnmarshal), W(ErrFailedToMarshalIntermediary)>> \o b.err,
               v, c1, FALSE)
  ELSE IF isSlice
  THEN LET r == unmarshalJSONToProtoSlice(b.b, v)
           out == Ptr(Slice(v.to.elem, r.items))
       IN IF ~r.ok
          THEN URet(<<W(ErrFailedToUnmarshal)>> \o r.err, out, c1 \o r.calls, FALSE)
          ELSE URet(NilErr, out, c1 \o r.calls, FALSE)
  ELSE IF v.kind = "nilmsg"
  THEN URet(NilErr, v, Append(c1, Call("protojson.Unmarshal", NoIndex)), TRUE)
  ELSE LET r == protojson_Unmarshal(b.b, v)
           c2 == Append(c1, Call("protojson.Unmarshal", NoIndex))
       IN IF ~r.ok
          THEN URet(<<W(ErrFailedToUnmarshal)>> \o r.err, r.m, c2, FALSE)
          ELSE URet(NilErr, r.m, c2, FALSE)

\* Lines 305-319 of Unmarshal: the intermediate value to JSON, JSON to the
\* destination.
unmarshalIntermediate(x, calls, v, isSlice) ==
  LET b == json_Marshal(x)
      c1 == Append(calls, Call("json.Marshal", NoIndex))
  IN IF ~b.ok
     THEN URet(<<W(ErrFailedToUnmarshal), W(ErrFailedToMarshalIntermediary)>> \o b.err,
               v, c1, FALSE)
  ELSE IF isSlice
  THEN LET r == unmarshalJSONToProtoSlice(b.b, v)
           out == Ptr(Slice(v.to.elem, r.items))
       IN IF ~r.ok
          THEN URet(<<W(ErrFailedToUnmarshal), W(ErrFailedToUnmarshalIntermediary)>> \o r.err,
                    out, c1 \o r.calls, FALSE)
          ELSE URet(NilErr, out, c1 \o r.calls, FALSE)
  ELSE IF v.kind = "nilmsg"
  THEN URet(NilErr, v, Append(c1, Call("protojson.Unmarshal", NoIndex)), TRUE)
  ELSE LET r == protojson_Unmarshal(b.b, v)
           c2 == Append(c1, Call("protojson.Unmarshal", NoIndex))
       IN IF ~r.ok
          THEN URet(<<W(ErrFailedToUnmarshal), W(ErrFailedToUnmarshalIntermediary)>> \o r.err,
                    r.m, c2, FALSE)
          ELSE URet(NilErr, r.m, c2, FALSE)

\* Mutant: the refusal carries the input sentinel instead of the output one.
invalidOutput_inputKind(v) ==
  URet(<<W(ErrFailedToUnmarshal), W(ErrInvalidInput), W(TypeName(v))>>, v, <<>>, FALSE)

\* Mutant: the refusal is returned without the ErrFailedToUnmarshal wrapper.
invalidOutput_unwrapped(v) ==
  URet(<<W(ErrInvalidOutput), W(TypeName(v))>>, v, <<>>, FALSE)

\* The fmt.Errorf of lines 267, 273 and 292: the destination is refused and
\* left as it is.
invalidOutput(v) ==
  URet(<<W(ErrFailedToUnmarshal), W(ErrInvalidOutput), W(TypeName(v))>>, v, <<>>, FALSE)

\* Lines 276-319 of Unmarshal: the switch on the attribute input, then the
\* intermediate value into the destination.
unmarshalAttributes(av, v, isSlice) ==
  CASE av.kind = "av" ->
         LET r == attributevalue_Unmarshal(av.a)
             c == <<Call("attributevalue.Unmarshal", NoIndex)>>
         IN IF ~r.ok THEN URet(<<W(ErrFailedToUnmarshal)>> \o r.err, v, c, FALSE)
            ELSE unmarshalIntermediate(r.x, c, v, isSlice)
    [] av.kind = "map" ->
         LET r == attributevalue_UnmarshalMap(av.m)
             c == <<Call("attributevalue.UnmarshalMap", NoIndex)>>
         IN IF ~r.ok THEN URet(<<W(ErrFailedToUnmarshal)>> \o r.err, v, c, FALSE)
            ELSE unmarshalIntermediate(r.x, c, v, isSlice)
    [] av.kind = "maps" ->
         IF ~isSlice THEN invalidOutput(v)
         ELSE LET r == unmarshalMapsLoop(av.l, 1, <<>>, <<>>)
              IN IF ~r.ok THEN URet(<<W(ErrFailedToUnmarshal)>> \o r.err, v, r.calls, FALSE)
                 ELSE unmarshalIntermediate(r.x, r.calls, v, isSlice)
    [] OTHER ->
         URet(<<W(ErrFailedToUnmarshal), W(ErrInvalidOutput), W("unsupported type"),
                W(TypeName(v))>>, v, <<>>, FALSE)

Unmarshal(av, v) ==
  IF KindOf(v) # "Ptr" THEN invalidOutput(v)
  ELSE LET isSlice == v.kind = "ptr" /\ KindOf(v.to) = "Slice"
       IN IF (isSlice /\ ~isProtoSlice(v.to)) \/ (~isSlice /\ ~isProtoMessage(v))
          THEN invalidOutput(v)
          ELSE unmarshalAttributes(av, v, isSlice)

(***************************************************************************)
(* Updates                                                                 *)
(***************************************************************************)
AttributeActionPut == "PUT"

\* Mutant: the update carries the ADD action.
Updates_actionAdd(mav) ==
  [kind |-> "updates",
   m |-> IF mav.kind = "nilmap" THEN <<>>
         ELSE [k \in DOMAIN mav.m |-> [Value |-> mav.m[k], Action |-> "ADD"]]]

\* mav is a map[string]types.AttributeValue, nil or not; the result is a
\* fresh map, never nil.
Updates(mav) ==
  [kind |-> "updates",
   m |-> IF mav.kind = "nilmap" THEN <<>>
         ELSE [k \in DOMAIN mav.m |-> [Value |-> mav.m[k], Action |-> AttributeActionPut]]]

(***************************************************************************)
(* The arguments the model draws.                                          *)
(***************************************************************************)
AllMsgs == UNION {Msgs(t) : t \in MsgTypes}

\* Two messages of different concrete types, for slices of an interface type.
MixedMsgs == {Msg("Struct", <<>>, FALSE), Msg("User", <<>>, FALSE)}

MarshalInputs ==
  {GoNil, GoInt, Ptr(GoInt)}
    \cup AllMsgs
    \cup {NilMsg(t) : t \in MsgTypes}
    \cup UNION {{Slice(PtrTo(t), s) : s \in SeqsUpTo(Msgs(t), MaxLen)} : t \in MsgTypes}
    \cup {Slice(IfaceType, s) : s \in SeqsUpTo(MixedMsgs, MaxLen)}
    \cup {Slice(IntType, s) : s \in SeqsUpTo({GoInt}, MaxLen)}
    \cup {Array(PtrTo("Struct"), s) : s \in SeqsUpTo({Msg("Struct", <<>>, FALSE)}, MaxLen)}
    \cup {Ptr(Slice(PtrTo("Struct"), s)) : s \in SeqsUpTo({Msg("Struct", <<>>, FALSE)}, MaxLen)}

\* The attribute values an attribute map may hold under key k.
AttrVals(k) ==
  CASE k = "bar" -> {AVS("hello moon"), AVN("1"), AVN("abc"), AVN("NaN")}
    [] k = "foo" -> {AVS("hello world")}

AttrMaps ==
  UNION {{f \in [D -> UNION {AttrVals(k) : k \in D}] : \A k \in D : f[k] \in AttrVals(k)} :
           D \in SUBSET Keys}

\* The maps a list attribute value is drawn over.
ListMaps == {[k \in {"foo"} |-> AVS("hello world")], [k \in {"bar"} |-> AVN("NaN")]}

AttrInputs ==
  {GoNil, GoInt}
    \cup {AttrMapVal(m) : m \in AttrMaps}
    \cup {AttrMapsVal(l) : l \in SeqsUpTo(AttrMaps, MaxLen)}
    \cup {[kind |-> "av", a |-> a] :
            a \in {AVS("hello world"), AVN("abc")}
                    \cup {AVM(m) : m \in AttrMaps}
                    \cup {AVL(l) : l \in SeqsUpTo({AVM(m) : m \in ListMaps}, MaxLen)}}

\* What a destination may hold before the call.
PriorMsgs(t) ==
  CASE t = "Struct" ->
         {Msg(t, <<>>, FALSE), Msg(t, [k \in {"foo"} |-> PString("hello world")], TRUE)}
    [] t = "User" ->
         {Msg(t, <<>>, FALSE), Msg(t, [k \in {"bar"} |-> PString("hello moon")], TRUE)}
    [] t = "StringValue" -> {Msg(t, <<>>, FALSE)}

Destinations ==
  {GoNil, GoInt, Slice(PtrTo("Struct"), <<>>), Ptr(GoInt), Ptr(Msg("Struct", <<>>, FALSE)),
   Ptr(Slice(IntType, <<>>)), Ptr(Slice(IfaceType, <<>>)), NilSlicePtr(PtrTo("Struct")),
   NilMsg("Struct")}
    \cup UNION {PriorMsgs(t) : t \in MsgTypes}
    \cup UNION {{Ptr(Slice(PtrTo(t), s)) : s \in SeqsUpTo(PriorMsgs(t), MaxPrior)} :
                  t \in {"Struct", "User"}}

UpdatesInputs == {NilMap} \cup {AttrMapVal(m) : m \in AttrMaps}

\* The fresh destination of the round trip of a Marshal input.
Fresh(v) ==
  IF v.kind = "slice" THEN Ptr(Slice(v.elem, <<>>))
  ELSE Msg(v.type, <<>>, FALSE)

VARIABLES pc, in, av, dst, ret, uret

vars == <<pc, in, av, dst, ret, uret>>

NoRet == Ret(GoNil, NilErr, <<>>)

NoURet == URet(NilErr, GoNil, <<>>, FALSE)

Init ==
  /\ ret = NoRet
  /\ uret = NoURet
  /\ \/ /\ pc = "Marshal"
        /\ in \in MarshalInputs
        /\ av = GoNil
        /\ dst = GoNil
     \/ /\ pc = "Unmarshal"
        /\ in = GoNil
        /\ av \in AttrInputs
        /\ dst \in Destinations
     \/ /\ pc = "Updates"
        /\ in = GoNil
        /\ av \in UpdatesInputs
        /\ dst = GoNil

\* Mutant: the input message is reset while it is marshalled.
DoMarshal_resetsInput ==
  /\ pc = "Marshal"
  /\ ret' = Marshal(in)
  /\ pc' = "marshalled"
  /\ in' = IF in.kind = "msg" THEN Msg(in.type, <<>>, FALSE) ELSE in
  /\ UNCHANGED <<av, dst, uret>>

\* out, err := dynabuf.Marshal(in)
DoMarshal ==
  /\ pc = "Marshal"
  /\ ret' = Marshal(in)
  /\ pc' = "marshalled"
  /\ UNCHANGED <<in, av, dst, uret>>

\* err = dynabuf.Unmarshal(av, dst)
DoUnmarshal ==
  /\ pc = "Unmarshal"
  /\ uret' = Unmarshal(av, dst)
  /\ pc' = "unmarshalled"
  /\ UNCHANGED <<in, av, dst, ret>>

\* The second half of a round trip: the attribute values Marshal returned
\* are unmarshalled into a fresh destination of the input's type.
DoRoundtrip ==
  /\ pc = "marshalled"
  /\ ret.err = NilErr
  /\ av' = ret.val
  /\ dst' = Fresh(in)
  /\ uret' = Unmarshal(ret.val, Fresh(in))
  /\ pc' = "roundtrip"
  /\ UNCHANGED <<in, ret>>

\* updates := dynabuf.Updates(av)
DoUpdates ==
  /\ pc = "Updates"
  /\ ret' = Ret(Updates(av), NilErr, <<>>)
  /\ pc' = "updated"
  /\ UNCHANGED <<in, av, dst, uret>>

Next == DoMarshal \/ DoUnmarshal \/ DoRoundtrip \/ DoUpdates

Spec == Init /\ [][Next]_vars

(***************************************************************************)
(* Properties                                                              *)
(***************************************************************************)
Marshalled == pc \in {"marshalled", "roundtrip"}

\* The canonical-document mapping is lossless for r: protojson writes r as a
\* document (a JSON object) and reads that document back as r.
CanonicalLossless(r) ==
  LET b == protojson_Marshal(r)
  IN /\ b.ok
     /\ b.b.j = "object"
     /\ LET u == protojson_Unmarshal(b.b, Msg(r.type, <<>>, FALSE))
        IN u.ok /\ u.m = r

\* C1: for every record whose canonical-document mapping is lossless,
\* Marshal succeeds with one attribute map, and Unmarshal of that map into a
\* fresh record of the same type succeeds and leaves it equal to the record.
C1_RoundTrip ==
  (in.kind = "msg" /\ CanonicalLossless(in)) =>
    /\ Marshalled => ret.err = NilErr /\ ret.val.kind = "map"
    /\ pc = "roundtrip" =>
         /\ dst = Msg(in.type, <<>>, FALSE)
         /\ uret.err = NilErr
         /\ ~uret.panicked
         /\ uret.out = in

C1_Witness ==
  /\ pc = "roundtrip"
  /\ in.kind = "msg"
  /\ CanonicalLossless(in)
  /\ DOMAIN in.fields = {"bar", "foo"}
  /\ in.fields["bar"] = PNumber(1)
  /\ uret.out = in

\* C2: for every non-empty slice of records of one type, each with a lossless
\* canonical mapping, Unmarshal(Marshal(slice), &out) with out empty succeeds
\* and out has the same length, out[i] being equal to element i.
C2_CollectionRoundTrip ==
  (/\ in.kind = "slice"
   /\ in.elem.k = "Ptr"
   /\ in.elem.to \in MsgTypes
   /\ Len(in.items) >= 1
   /\ \A n \in DOMAIN in.items : CanonicalLossless(in.items[n])) =>
    /\ Marshalled => ret.err = NilErr /\ ret.val.kind = "maps"
    /\ pc = "roundtrip" =>
         /\ dst = Ptr(Slice(in.elem, <<>>))
         /\ uret.err = NilErr
         /\ ~uret.panicked
         /\ Len(uret.out.to.items) = Len(in.items)
         /\ \A n \in DOMAIN in.items : uret.out.to.items[n] = in.items[n]

C2_Witness ==
  /\ pc = "roundtrip"
  /\ in.kind = "slice"
  /\ Len(in.items) >= 2
  /\ in.items[1] # in.items[2]
  /\ \A n \in DOMAIN in.items : CanonicalLossless(in.items[n])
  /\ uret.err = NilErr
  /\ uret.out.to.items = in.items

\* C3: Marshal of a single record that succeeds returns one attribute map;
\* Marshal of a slice of n records (n >= 0) that can each be encoded returns,
\* with no error, a slice of exactly n attribute maps, entry i being what
\* Marshal returns for element i alone.
C3_ResultShape ==
  Marshalled =>
    /\ (in.kind = "msg" /\ ret.err = NilErr) => ret.val.kind = "map"
    /\ (/\ in.kind = "slice"
        /\ in.elem.k = "Ptr"
        /\ in.elem.to \in MsgTypes
        /\ \A n \in DOMAIN in.items : Marshal(in.items[n]).err = NilErr) =>
         /\ ret.err = NilErr
         /\ ret.val.kind = "maps"
         /\ Len(ret.val.l) = Len(in.items)
         /\ \A n \in DOMAIN in.items : AttrMapVal(ret.val.l[n]) = Marshal(in.items[n]).val

C3_Witness ==
  /\ pc = "marshalled"
  /\ in.kind = "slice"
  /\ Len(in.items) >= 2
  /\ ret.err = NilErr
  /\ Len(ret.val.l) = Len(in.items)
  /\ ret.val.l[1] # ret.val.l[2]

\* The Marshal inputs that are neither a record nor a slice whose element
\* type is a record type, told by their type alone.
InvalidMarshalInput(v) ==
  \/ v.kind \in {"nil", "int", "array", "ptr"}
  \/ v.kind = "slice" /\ v.elem \in {IntType, IfaceType}

\* C4: Marshal of a value that is neither a record nor a slice whose element
\* type is a record type returns an error that is ErrInvalidInput, whatever
\* the slice holds, and no codec has been called.
C4_InvalidInput ==
  (Marshalled /\ InvalidMarshalInput(in)) =>
    /\ Is(ret.err, ErrInvalidInput)
    /\ ret.calls = <<>>
    /\ ret.val \in {NilMap, NilMaps}

C4_Witness ==
  /\ pc = "marshalled"
  /\ in.kind = "slice"
  /\ in.elem = IfaceType
  /\ Len(in.items) >= 2
  /\ in.items[1].type = in.items[2].type
  /\ Is(ret.err, ErrInvalidInput)

\* The destinations whose type is neither pointer to a record nor pointer to
\* a slice of records.
InvalidDestination(v) ==
  \/ v.kind \in {"nil", "int", "slice"}
  \/ /\ v.kind = "ptr"
     /\ \/ v.to.kind # "slice"
        \/ v.to.elem.k # "Ptr"
        \/ v.to.elem.to \notin MsgTypes

\* C5: Unmarshal into a destination that is not a pointer to a record or to
\* a slice of records returns an error that is ErrInvalidOutput, whatever the
\* attribute input is, with no codec called and the destination as it was.
C5_InvalidOutputFirst ==
  (pc = "unmarshalled" /\ InvalidDestination(dst)) =>
    /\ Is(uret.err, ErrInvalidOutput)
    /\ uret.calls = <<>>
    /\ uret.out = dst
    /\ ~uret.panicked

C5_Witness ==
  /\ pc = "unmarshalled"
  /\ dst = Ptr(Slice(IntType, <<>>))
  /\ av.kind = "maps"
  /\ Len(av.l) >= 1
  /\ Is(uret.err, ErrInvalidOutput)
  /\ uret.calls = <<>>

Last(q) == q[Len(q)]

\* C6: a single attribute map with a slice destination, and a slice of
\* attribute maps with a single-record destination, are each refused with
\* ErrInvalidOutput, no codec called and the destination unchanged.
C6_ShapeMismatch ==
  (/\ pc = "unmarshalled"
   /\ \/ av.kind = "map" /\ dst.kind = "ptr" /\ isProtoSlice(dst.to)
      \/ av.kind = "maps" /\ dst.kind = "msg") =>
    /\ Is(uret.err, ErrInvalidOutput)
    /\ uret.calls = <<>>
    /\ uret.out = dst

\* C7: every error Marshal returns is ErrFailedToMarshal and every error
\* Unmarshal returns is ErrFailedToUnmarshal.
C7_TopLevelWrapper ==
  /\ (Marshalled /\ ret.err # NilErr) =>
       Is(ret.err, ErrFailedToMarshal) /\ ret.err[1] = W(ErrFailedToMarshal)
  /\ (pc \in {"unmarshalled", "roundtrip"} /\ uret.err # NilErr) =>
       Is(uret.err, ErrFailedToUnmarshal) /\ uret.err[1] = W(ErrFailedToUnmarshal)

C7_Witness ==
  /\ pc = "unmarshalled"
  /\ av.kind = "maps"
  /\ uret.err # NilErr
  /\ uret.calls # <<>>
  /\ Last(uret.calls) = Call("protojson.Unmarshal", 1)
  /\ Is(uret.err, ErrFailedToUnmarshal)

\* C8: a Marshal failure in the canonical-document stage is ErrFailedToMarshal
\* and ErrFailedToMarshalIntermediary; a failure in the attribute stage is
\* ErrFailedToMarshal and not ErrFailedToMarshalIntermediary.
C8_MarshalStages ==
  (Marshalled /\ in.kind = "msg" /\ ret.err # NilErr /\ ret.calls # <<>>) =>
    /\ Is(ret.err, ErrFailedToMarshal)
    /\ Last(ret.calls).fn \in {"protojson.Marshal", "json.Unmarshal"} =>
         Is(ret.err, ErrFailedToMarshalIntermediary)
    /\ Last(ret.calls).fn = "attributevalue.MarshalMap" =>
         ~Is(ret.err, ErrFailedToMarshalIntermediary)

\* C9: an Unmarshal failure in the attribute stage is ErrFailedToUnmarshal,
\* ends in the codec's error and is not ErrFailedToUnmarshalIntermediary; a
\* failure turning the canonical document into a record is
\* ErrFailedToUnmarshal and ErrFailedToUnmarshalIntermediary.
C9_UnmarshalStages ==
  (pc = "unmarshalled" /\ uret.err # NilErr /\ uret.calls # <<>>) =>
    /\ Is(uret.err, ErrFailedToUnmarshal)
    /\ Last(uret.calls).fn \in {"attributevalue.Unmarshal", "attributevalue.UnmarshalMap"} =>
         /\ ~Is(uret.err, ErrFailedToUnmarshalIntermediary)
         /\ Last(uret.err) = W("attributevalue: invalid number")
    /\ Last(uret.calls).fn \in {"json.Marshal", "json.Unmarshal", "protojson.Unmarshal"} =>
         Is(uret.err, ErrFailedToUnmarshalIntermediary)

\* The lowest index (from one) of an element Marshal fails on alone.
FirstFailing(items) ==
  CHOOSE k \in DOMAIN items :
    /\ Marshal(items[k]).err # NilErr
    /\ \A j \in 1..(k - 1) : Marshal(items[j]).err = NilErr

\* C10: when element k is the first of a slice of records that fails to
\* convert, Marshal returns no attribute maps, the error names index k and
\* ends in that element's own error, the elements before k were converted
\* and none after k was.
C10_AtomicEncode ==
  (/\ Marshalled
   /\ in.kind = "slice"
   /\ isProtoSlice(in)
   /\ \E n \in DOMAIN in.items : Marshal(in.items[n]).err # NilErr) =>
    LET k == FirstFailing(in.items)
    IN /\ ret.val = NilMaps
       /\ Len(ret.err) > 2
       /\ ret.err[2] = AtIndex(k - 1)
       /\ SubSeq(ret.err, 3, Len(ret.err)) = Marshal(in.items[k]).err
       /\ {c.i : c \in {ret.calls[n] : n \in DOMAIN ret.calls}} = 0..(k - 1)

C10_Witness ==
  /\ pc = "marshalled"
  /\ in.kind = "slice"
  /\ isProtoSlice(in)
  /\ Len(in.items) >= 2
  /\ Marshal(in.items[1]).err # NilErr
  /\ Marshal(in.items[2]).err = NilErr
  /\ ret.val = NilMaps
  /\ ret.err[2] = AtIndex(0)
  /\ \A n \in DOMAIN ret.calls : ret.calls[n].i = 0

\* What Unmarshal makes of the single attribute map m and a fresh record of
\* type t.
DecodeAlone(m, t) == Unmarshal(AttrMapVal(m), Msg(t, <<>>, FALSE))

\* The lowest index (from one) of an attribute map that fails to convert alone.
FirstFailingDecode(l, t) ==
  CHOOSE k \in DOMAIN l :
    /\ DecodeAlone(l[k], t).err # NilErr
    /\ \A j \in 1..(k - 1) : DecodeAlone(l[j], t).err = NilErr

\* Unmarshal was called with a slice of attribute maps and a pointer to a
\* slice of records.
SliceDecode ==
  /\ pc = "unmarshalled"
  /\ av.kind = "maps"
  /\ dst.kind = "ptr"
  /\ isProtoSlice(dst.to)

\* C11: when Unmarshal of a slice of attribute maps fails, the error is that
\* of the lowest-index element that fails to convert, in either stage, it
\* names that element's index, and no later element reaches a codec.
C11_FirstFailingDecode ==
  (SliceDecode /\ uret.err # NilErr) =>
    LET t == dst.to.elem.to
        k == FirstFailingDecode(av.l, t)
    IN /\ \E j \in DOMAIN uret.err : uret.err[j] = AtIndex(k - 1)
       /\ Last(uret.err) = Last(DecodeAlone(av.l[k], t).err)
       /\ \A n \in DOMAIN uret.calls : uret.calls[n].i <= k - 1

\* The entries of an attribute map given to Updates; a nil map has none.
EntriesOf(mav) == IF mav.kind = "map" THEN mav.m ELSE <<>>

\* C12: Updates(m) has exactly the keys of m, each entry holds m's value for
\* its key and the one put action, and m is as it was; the nil and the empty
\* map included.
C12_Updates ==
  [][pc = "Updates" =>
       /\ av' = av
       /\ ret'.err = NilErr
       /\ ret'.val.kind = "updates"
       /\ DOMAIN ret'.val.m = DOMAIN EntriesOf(av)
       /\ \A k \in DOMAIN EntriesOf(av) :
            /\ ret'.val.m[k].Value = EntriesOf(av)[k]
            /\ ret'.val.m[k].Action = AttributeActionPut]_vars

C12_Witness ==
  /\ pc = "updated"
  /\ av.kind = "map"
  /\ DOMAIN av.m = Keys
  /\ DOMAIN ret.val.m = Keys
  /\ ret.val.m["bar"].Value = AVN("1")

\* C13: a Marshal call, failing or not, leaves its input as it was: the
\* record, or the slice with its length and every element.
C13_InputUnchanged == [][pc = "Marshal" => in' = in]_vars

C13_Witness ==
  /\ pc = "marshalled"
  /\ in.kind = "slice"
  /\ isProtoSlice(in)
  /\ Len(in.items) >= 2
  /\ in.items[1].unknown
  /\ ret.err # NilErr
  /\ Len(ret.calls) > 3

\* C14: every Marshal and every Unmarshal call ends by returning, never in a
\* run-time panic.
C14_NoFault == pc \in {"unmarshalled", "roundtrip"} => ~uret.panicked

C14_Witness ==
  /\ pc = "unmarshalled"
  /\ dst.kind = "nilmsg"
  /\ uret.panicked

\* The records decoded alone from the attribute maps l[1..n], in order.
DecodedAlone(l, n, t) == [i \in 1..n |-> DecodeAlone(l[i], t).out]

\* C15: on success with n attribute maps and a destination slice holding m
\* records, the m records stay in front and the n decoded records follow in
\* input order; with n = 0 the destination is as it was.
C15_Appends ==
  (SliceDecode /\ uret.err = NilErr) =>
    LET t == dst.to.elem.to
        prior == dst.to.items
    IN /\ uret.out.to.items = prior \o DecodedAlone(av.l, Len(av.l), t)
       /\ Len(uret.out.to.items) = Len(prior) + Len(av.l)
       /\ Len(av.l) = 0 => uret.out = dst

C15_Witness ==
  /\ SliceDecode
  /\ uret.err = NilErr
  /\ Len(dst.to.items) = 1
  /\ dst.to.items[1].fields # <<>>
  /\ Len(av.l) = 2
  /\ av.l[1] # av.l[2]
  /\ Len(uret.out.to.items) = 3

\* Every attribute map of l passes the attribute codec.
AttrOK(l) == \A i \in DOMAIN l : attributevalue_UnmarshalMap(l[i]).ok

\* The intermediate value of every attribute map of l can be written as JSON.
JSONOK(l) == \A i \in DOMAIN l : json_Marshal(attributevalue_UnmarshalMap(l[i]).x).ok

\* Some attribute map of l does not decode into a record of type t.
SomeFails(l, t) == \E i \in DOMAIN l : DecodeAlone(l[i], t).err # NilErr

\* The call failed, the destination holds its prior records and then the
\* records of the elements before the first failing one, and no later element
\* was read into a record.
PartialUpTo(k) ==
  /\ uret.err # NilErr
  /\ uret.out.to.items = dst.to.items \o DecodedAlone(av.l, k - 1, dst.to.elem.to)
  /\ \A n \in DOMAIN uret.calls :
       uret.calls[n].fn = "protojson.Unmarshal" => uret.calls[n].i <= k - 1

\* A nil error comes with every element appended.
NilErrorIsComplete ==
  (SliceDecode /\ uret.err = NilErr) =>
    Len(uret.out.to.items) = Len(dst.to.items) + Len(av.l)

\* C16, as stated: when the attribute stage passes for every element and
\* element k is the first that fails in the canonical-document stage, the call
\* fails, the destination holds its prior records and the k decoded ones, and
\* no element after k is converted; a nil error never comes with a partial
\* destination.
C16_PartialDecode ==
  /\ NilErrorIsComplete
  /\ (SliceDecode /\ AttrOK(av.l) /\ SomeFails(av.l, dst.to.elem.to)) =>
       PartialUpTo(FirstFailingDecode(av.l, dst.to.elem.to))

\* C16, amended: the same when every intermediate value can be written as
\* JSON; when one cannot, the call fails with the destination as it was.
C16_PartialDecodeAmended ==
  /\ NilErrorIsComplete
  /\ (SliceDecode /\ AttrOK(av.l) /\ JSONOK(av.l) /\ SomeFails(av.l, dst.to.elem.to)) =>
       PartialUpTo(FirstFailingDecode(av.l, dst.to.elem.to))
  /\ (SliceDecode /\ AttrOK(av.l) /\ ~JSONOK(av.l)) =>
       (uret.err # NilErr /\ uret.out = dst)

C16_Witness ==
  /\ SliceDecode
  /\ AttrOK(av.l)
  /\ JSONOK(av.l)
  /\ Len(av.l) = 2
  /\ Len(dst.to.items) = 1
  /\ DecodeAlone(av.l[1], dst.to.elem.to).err = NilErr
  /\ DecodeAlone(av.l[2], dst.to.elem.to).err # NilErr
  /\ uret.err # NilErr
  /\ Len(uret.out.to.items) = 2

\* C17: when Unmarshal returns an error that is not
\* ErrFailedToUnmarshalIntermediary, the destination is as it was before the
\* call, and for a slice of attribute maps no record was read.
C17_OutputUntouched ==
  (pc = "unmarshalled" /\ uret.err # NilErr
     /\ ~Is(uret.err, ErrFailedToUnmarshalIntermediary)) =>
    /\ uret.out = dst
    /\ \A n \in DOMAIN uret.calls : uret.calls[n].fn # "protojson.Unmarshal"

C17_Witness ==
  /\ SliceDecode
  /\ Len(av.l) = 2
  /\ Len(dst.to.items) = 1
  /\ attributevalue_UnmarshalMap(av.l[1]).ok
  /\ ~attributevalue_UnmarshalMap(av.l[2]).ok
  /\ uret.err # NilErr
  /\ ~Is(uret.err, ErrFailedToUnmarshalIntermediary)
  /\ uret.out = dst

\* C18: no error of Marshal is ErrFailedToUnmarshal,
\* ErrFailedToUnmarshalIntermediary or ErrInvalidOutput, and no error of
\* Unmarshal is ErrFailedToMarshal, ErrFailedToMarshalIntermediary or
\* ErrInvalidInput.
C18_NoCrossing ==
  /\ pc = "marshalled" =>
       \A kind \in {ErrFailedToUnmarshal, ErrFailedToUnmarshalIntermediary, ErrInvalidOutput} :
         ~Is(ret.err, kind)
  /\ pc = "unmarshalled" =>
       \A kind \in {ErrFailedToMarshal, ErrFailedToMarshalIntermediary, ErrInvalidInput} :
         ~Is(uret.err, kind)
====
